---- MODULE Spec2Model ----
(***************************************************************************)
(* Model of e3.testsuite.testcase_finder: ParsedTest, TestFinder,          *)
(* YAMLTestFinder and AdaCoreLegacyTestFinder.                             *)
(*                                                                         *)
(* Strings that the code inspects character by character (directory paths  *)
(* and names) are sequences of one-character strings; the file name        *)
(* "test.yaml" is kept as one token.  Python's None is the string "None".  *)
(* A YAML value is a record [kind, repr, items]: kind is its Python type,  *)
(* repr its text, items the (key, value) pairs of a mapping, each value a  *)
(* pair <<kind, repr>>.                                                    *)
(***************************************************************************)
EXTENDS Integers, Sequences, FiniteSets, TLC

VARIABLES
    calls,      \* one record per caller: the frame of its running probe / constructor call
    heap,       \* number of objects (dicts, ParsedTests) allocated so far
    finders,    \* the shared finder instances and their fields
    lcall       \* the frame of the single call of the legacy sweep (SpecLegacy)

vars == <<calls, heap, finders, lcall>>

\* ------------------------------------------------------------------ bounds

\* Objects the probes may allocate in one run.
MaxObjects == 4

\* Longest directory name of the legacy sweep.
MaxNameLen == 9

\* The callers that may probe concurrently on the shared finders.
Callers == {"c1", "c2"}

\* ------------------------------------------------------------ Python values

None == "None"

NULL == <<"null", "">>

Doc(kind, repr, items) == [kind |-> kind, repr |-> repr, items |-> items]

DocNone == Doc("null", "", {})

\* isinstance(v, collections.abc.Mapping)
IsMapping(v) == v.kind = "map"

\* lists and dicts are unhashable, every scalar is hashable
Hashable(leaf) == leaf[1] \notin {"seq", "map"}

\* Mapping.get(key): the value of the key, None when the key is absent
MappingGet(v, key) ==
    IF \E it \in v.items : it[1] = key
    THEN (CHOOSE it \in v.items : it[1] = key)[2]
    ELSE NULL

\* x in list
InList(x, l) == \E i \in 1..Len(l) : l[i] = x

\* ------------------------------------------------------------ os.path

SEP == "/"

LastSep(p) ==
    IF \E i \in 1..Len(p) : p[i] = SEP
    THEN CHOOSE i \in 1..Len(p) : p[i] = SEP /\ \A j \in (i+1)..Len(p) : p[j] # SEP
    ELSE 0

\* os.path.basename(p): what follows the last separator
Basename(p) == SubSeq(p, LastSep(p) + 1, Len(p))

\* os.path.join(a, name)
PathJoin(a, name) ==
    IF Len(a) = 0 \/ a[Len(a)] = SEP
    THEN a \o <<name>>
    ELSE a \o <<SEP, name>>

\* ------------------------------------------------------------ re

Upper == {"A","B","C","D","E","F","G","H","I","J","K","L","M",
          "N","O","P","Q","R","S","T","U","V","W","X","Y","Z"}

Digit == {"0","1","2","3","4","5","6","7","8","9"}

\* One item of a pattern: a character class repeated exactly n times.
Item(class, n) == [class |-> class, n |-> n]

\* [0-9A-Z]{2}[0-9]{2}-[A-Z0-9]{3}
TN_RE == << Item(Digit \cup Upper, 2), Item(Digit, 2), Item({"-"}, 1), Item(Upper \cup Digit, 3) >>

\* The position after the match of items k.. of pat at position i of s, 0 when there is none.
RECURSIVE MatchEnd(_, _, _, _)
MatchEnd(pat, k, s, i) ==
    IF k > Len(pat) THEN i
    ELSE LET it == pat[k] IN
         IF i + it.n - 1 <= Len(s) /\ \A j \in i..(i + it.n - 1) : s[j] \in it.class
         THEN MatchEnd(pat, k + 1, s, i + it.n)
         ELSE 0

\* pattern.fullmatch(s) is not None
ReFullMatch(pat, s) == MatchEnd(pat, 1, s, 1) = Len(s) + 1

\* pattern.match(s) is not None: the pattern matches at the start of s
ReMatch(pat, s) == MatchEnd(pat, 1, s, 1) # 0

\* ------------------------------------------------------------ the tests tree

Str(s) == <<"str", s>>

MapDoc(items) == Doc("map", "", items)

Dir(path, dirnames, filenames, state, linux, windows) ==
    [path |-> path, dirnames |-> dirnames, filenames |-> filenames,
     state |-> state, doc |-> [linux |-> linux, windows |-> windows]]

TN == <<"A","B","1","2","-","X","Y","Z">>

Timeout == <<"timeout", <<"int", "5">>>>

\* The directories the scanner walks: each with its listing, the state of its
\* test.yaml ("absent", "text", "malformed", "unreadable") and, for a text file,
\* the value that loading it yields under each environment.
Tree == {
    Dir(<<"t","/","a">>, <<"sub">>, <<"x.txt">>, "absent", DocNone, DocNone),
    Dir(<<"t","/","b">>, <<>>, <<"test.yaml">>, "text", DocNone, DocNone),
    Dir(<<"t","/","c">>, <<"sub">>, <<"x.txt","test.yaml">>, "text", MapDoc({}), MapDoc({Timeout})),
    Dir(<<"t","/","d">>, <<>>, <<"test.yaml","x.txt">>, "text",
        MapDoc({<<"driver", Str("python")>>, Timeout}), MapDoc({<<"driver", Str("")>>})),
    Dir(<<"t","/","e">>, <<>>, <<"test.yaml">>, "text",
        MapDoc({<<"driver", NULL>>, Timeout}), MapDoc({<<"driver", NULL>>})),
    Dir(<<"t","/","f">>, <<>>, <<"test.yaml">>, "text",
        MapDoc({<<"driver", <<"seq", "[python]">>>>}), MapDoc({<<"driver", <<"map", "{name: python}">>>>})),
    Dir(<<"t","/","g">>, <<>>, <<"test.yaml">>, "text",
        MapDoc({<<"driver", <<"int", "42">>>>}), MapDoc({<<"driver", <<"bool", "False">>>>})),
    Dir(<<"t","/","h">>, <<>>, <<"test.yaml">>, "text",
        Doc("seq", "[]", {}), Doc("str", "", {})),
    Dir(<<"t","/","i">>, <<>>, <<"test.yaml">>, "text",
        Doc("int", "0", {}), Doc("bool", "False", {})),
    Dir(<<"t","/","j">>, <<>>, <<"test.yaml">>, "text",
        Doc("str", "driver", {}), Doc("seq", "[driver, python]", {})),
    Dir(<<"t","/","k">>, <<>>, <<"test.yaml">>, "malformed", DocNone, DocNone),
    Dir(<<"t","/","l">>, <<>>, <<"test.yaml">>, "unreadable", DocNone, DocNone),
    Dir(<<"t","/","m">>, <<>>, <<"test.yml","TEST.YAML">>, "absent", DocNone, DocNone),
    Dir(<<"t","/">> \o TN, <<>>, <<"test.out">>, "absent", DocNone, DocNone),
    Dir(<<"t","/">> \o TN \o <<"-","x">>, <<>>, <<"test.yaml">>, "text",
        MapDoc({<<"driver", Str("nope")>>}), MapDoc({<<"driver", Str("default")>>, Timeout})),
    Dir(<<"t","/","a","b","1","2","-","x","y","z">>, <<>>, <<>>, "absent", DocNone, DocNone),
    Dir(<<"t","/","A","B","1","-","X","Y","Z">>, <<>>, <<>>, "absent", DocNone, DocNone),
    Dir(TN \o <<"/">>, <<>>, <<>>, "absent", DocNone, DocNone),
    Dir(TN, <<"sub">>, <<>>, "absent", DocNone, DocNone)
}

\* ------------------------------------------------------------ collaborators

DriverClasses == {"DefaultDriver", "PythonDriver"}

\* The testsuites a probe may be given, each with its driver registry.
Testsuites == {
    [id |-> "full", test_driver_map |-> {<<Str("default"), "DefaultDriver">>, <<Str("python"), "PythonDriver">>}],
    [id |-> "bare", test_driver_map |-> {}]
}

Envs == {"linux", "windows"}

\* The testsuite and the environment a probe runs with.
Contexts == {
    [ts |-> CHOOSE t \in Testsuites : t.id = "full", env |-> "linux"],
    [ts |-> CHOOSE t \in Testsuites : t.id = "bare", env |-> "windows"]
}

\* testsuite.test_name(dirpath): the path with its separators replaced, never empty
RECURSIVE ReplaceSep(_)
ReplaceSep(p) ==
    IF p = <<>> THEN <<>>
    ELSE (IF Head(p) = SEP THEN <<"_">> ELSE <<Head(p)>>) \o ReplaceSep(Tail(p))

TestsuiteTestName(ts, dirpath) ==
    IF dirpath = <<>> THEN <<".">> ELSE ReplaceSep(dirpath)

Ok(v) == [status |-> "ok", value |-> v, exc |-> None]

Raise(exc) == [status |-> "raise", value |-> DocNone, exc |-> exc]

\* e3.yaml.load_with_config(yaml_file, Env().to_dict()): the value of the file,
\* YamlError for a file it cannot parse, the operating system's error for a file
\* it cannot open.
LoadWithConfig(yaml_file, env) ==
    LET ds == {d \in Tree : d.state # "absent" /\ PathJoin(d.path, "test.yaml") = yaml_file} IN
    IF ds = {} THEN Raise("OSError")
    ELSE LET d == CHOOSE d \in ds : TRUE IN
         CASE d.state = "text" -> Ok(d.doc[env])
           [] d.state = "malformed" -> Raise("YamlError")
           [] OTHER -> Raise("OSError")

\* dict[key]: the value, KeyError for a missing key, TypeError for an unhashable key
DictGetItem(map, key) ==
    IF ~Hashable(key) THEN [status |-> "raise", value |-> None, exc |-> "TypeError"]
    ELSE IF \E e \in map : e[1] = key
         THEN [status |-> "ok", value |-> (CHOOSE e \in map : e[1] = key)[2], exc |-> None]
         ELSE [status |-> "raise", value |-> None, exc |-> "KeyError"]

\* ------------------------------------------------------------ ParsedTest

\* A reference to a dict: the object's identity and its content.
Ref(id, val) == [id |-> id, val |-> val]

NoRef == Ref(0, DocNone)

\* Mutant of ParsedTest: __init__ assigns test_dir and test_name crosswise.
ParsedTestSwapped(id, test_name, driver_cls, test_env, test_dir, test_matcher) ==
    [id |-> id, test_name |-> test_dir, driver_cls |-> driver_cls,
     test_env |-> test_env, test_dir |-> test_name, test_matcher |-> test_matcher]

\* ParsedTest.__init__: the object `id` with the five fields assigned
ParsedTest(id, test_name, driver_cls, test_env, test_dir, test_matcher) ==
    [id |-> id, test_name |-> test_name, driver_cls |-> driver_cls,
     test_env |-> test_env, test_dir |-> test_dir, test_matcher |-> test_matcher]

\* ParsedTest(...) called without test_matcher: the parameter's default
ParsedTestDefault(id, test_name, driver_cls, test_env, test_dir) ==
    ParsedTest(id, test_name, driver_cls, test_env, test_dir, None)

NoTest == ParsedTest(0, <<>>, None, NoRef, <<>>, None)

\* TestFinder.test_dedicated_directory
TestDedicatedDirectory(self) == TRUE

\* ------------------------------------------------------------ outcomes of a call

Pending == [kind |-> "pending", exc |-> None, msg |-> "", test |-> NoTest]

ReturnNone == [kind |-> "none", exc |-> None, msg |-> "", test |-> NoTest]

ReturnTest(t) == [kind |-> "test", exc |-> None, msg |-> "", test |-> t]

Raised(exc, msg) == [kind |-> "raise", exc |-> exc, msg |-> msg, test |-> NoTest]

ProbingError(msg) == Raised("ProbingError", msg)

\* ------------------------------------------------------------ frames

Idle ==
    [op |-> "idle", pc |-> "idle", ts |-> CHOOSE t \in Testsuites : t.id = "bare", env |-> "linux",
     dirpath |-> <<>>, dirnames |-> <<>>, filenames |-> <<>>,
     test_name |-> <<>>, yaml_file |-> <<>>, test_env |-> NoRef,
     driver_cls |-> None, matcher |-> None, outcome |-> Pending, trace |-> <<>>]

\* probe(testsuite, dirpath, dirnames, filenames) entered on a finder
Enter(op, ts, env, d) ==
    [Idle EXCEPT !.op = op, !.pc = "start", !.ts = ts, !.env = env,
                 !.dirpath = d.path, !.dirnames = d.dirnames, !.filenames = d.filenames]

Step(f, h) == [f |-> f, h |-> h]

Finish(f, h, outcome) == Step([f EXCEPT !.pc = "done", !.outcome = outcome], h)

\* ------------------------------------------------------------ YAMLTestFinder.probe

\* Mutant of LacksTestYaml: the marker's name misspelt.
LacksTestYml(filenames) == ~InList("test.yml", filenames)

\* "test.yaml" not in filenames
LacksTestYaml(filenames) == ~InList("test.yaml", filenames)

\* if "test.yaml" not in filenames: return None
YamlCheck(f, h) ==
    IF LacksTestYaml(f.filenames)
    THEN Finish(f, h, ReturnNone)
    ELSE Step([f EXCEPT !.pc = "name"], h)

\* test_name = testsuite.test_name(dirpath); yaml_file = os.path.join(dirpath, "test.yaml")
YamlName(f, h) ==
    Step([f EXCEPT !.test_name = TestsuiteTestName(f.ts, f.dirpath),
                   !.yaml_file = PathJoin(f.dirpath, "test.yaml"),
                   !.trace = Append(@, <<"test_name">> \o f.dirpath),
                   !.pc = "load"], h)

\* except e3.yaml.YamlError: raise ProbingError(...); any other exception propagates
LoadFailure(exc) ==
    IF exc = "YamlError"
    THEN ProbingError("invalid syntax for test.yaml")
    ELSE Raised(exc, "")

\* try: test_env = e3.yaml.load_with_config(yaml_file, Env().to_dict())
YamlLoad(f, h) ==
    LET r == LoadWithConfig(f.yaml_file, f.env)
        g == [f EXCEPT !.trace = Append(@, <<"load">> \o f.yaml_file)]
    IN  IF r.status = "raise"
        THEN Finish(g, h, LoadFailure(r.exc))
        ELSE IF r.value.kind = "null"
             THEN Step([g EXCEPT !.test_env = Ref(0, r.value), !.pc = "normalize"], h)
             ELSE Step([g EXCEPT !.test_env = Ref(h + 1, r.value), !.pc = "normalize"], h + 1)

\* Python's truth value of a loaded value
Falsy(v) ==
    \/ v.kind = "null"
    \/ v.kind = "map" /\ v.items = {}
    \/ v.kind # "map" /\ v.repr \in {"", "0", "False", "[]"}

\* Mutant of YamlNormalize: "if not test_env" in place of "if test_env is None".
YamlNormalizeFalsy(f, h) ==
    IF Falsy(f.test_env.val)
    THEN Step([f EXCEPT !.test_env = Ref(h + 1, MapDoc({})), !.pc = "driver"], h + 1)
    ELSE IF ~IsMapping(f.test_env.val)
         THEN Finish(f, h, ProbingError("invalid format for test.yaml"))
         ELSE Step([f EXCEPT !.pc = "driver"], h)

\* if test_env is None: test_env = {}
\* elif not isinstance(test_env, collections.abc.Mapping): raise ProbingError(...)
YamlNormalize(f, h) ==
    IF f.test_env.val.kind = "null"
    THEN Step([f EXCEPT !.test_env = Ref(h + 1, MapDoc({})), !.pc = "driver"], h + 1)
    ELSE IF ~IsMapping(f.test_env.val)
         THEN Finish(f, h, ProbingError("invalid format for test.yaml"))
         ELSE Step([f EXCEPT !.pc = "driver"], h)

\* except KeyError: raise ProbingError("cannot find driver"); any other exception propagates
LookupFailure(exc) ==
    IF exc = "KeyError"
    THEN ProbingError("cannot find driver")
    ELSE Raised(exc, "")

\* Mutant of DriverUnset: "not driver_name" in place of "driver_name is None".
DriverUnsetFalsy(driver_name) == driver_name = NULL \/ driver_name[2] \in {"", "0", "False", "[]", "{}"}

\* driver_name is None
DriverUnset(driver_name) == driver_name = NULL

\* Mutant of YamlDriver: the registry is consulted before the test for None.
YamlDriverEager(f, h) ==
    LET driver_name == MappingGet(f.test_env.val, "driver")
        r == DictGetItem(f.ts.test_driver_map, driver_name)
        g == [f EXCEPT !.trace = Append(@, <<"test_driver_map">> \o driver_name)]
    IN  IF driver_name = NULL
        THEN Step([g EXCEPT !.driver_cls = None, !.pc = "return"], h)
        ELSE IF r.status = "raise"
             THEN Finish(g, h, LookupFailure(r.exc))
             ELSE Step([g EXCEPT !.driver_cls = r.value, !.pc = "return"], h)

\* driver_name = test_env.get("driver"); driver_cls = None or testsuite.test_driver_map[driver_name]
YamlDriver(f, h) ==
    LET driver_name == MappingGet(f.test_env.val, "driver") IN
    IF DriverUnset(driver_name)
    THEN Step([f EXCEPT !.driver_cls = None, !.pc = "return"], h)
    ELSE LET r == DictGetItem(f.ts.test_driver_map, driver_name)
             g == [f EXCEPT !.trace = Append(@, <<"test_driver_map">> \o driver_name)]
         IN  IF r.status = "raise"
             THEN Finish(g, h, LookupFailure(r.exc))
             ELSE Step([g EXCEPT !.driver_cls = r.value, !.pc = "return"], h)

\* Mutant of YamlReturn: the path of the file passed as the test directory.
YamlReturnFile(f, h) ==
    Finish(f, h + 1, ReturnTest(ParsedTestDefault(h + 1, f.test_name, f.driver_cls, f.test_env, f.yaml_file)))

\* return ParsedTest(test_name, driver_cls, test_env, dirpath)
YamlReturn(f, h) ==
    Finish(f, h + 1, ReturnTest(ParsedTestDefault(h + 1, f.test_name, f.driver_cls, f.test_env, f.dirpath)))

\* ------------------------------------------------------------ AdaCoreLegacyTestFinder.probe

\* Mutant of NewDict: one dict shared by every result.
SharedDict(h) == Ref(0, MapDoc({}))

\* {}: a new empty dict
NewDict(h) == Ref(h + 1, MapDoc({}))

\* Mutant of TnMatch: fullmatch in place of match.
TnFullMatch(dirname) == ReFullMatch(TN_RE, dirname)

\* self.TN_RE.match(dirname)
TnMatch(dirname) == ReMatch(TN_RE, dirname)

\* the whole of probe: it calls no collaborator
LegacyProbe(self, f, h) ==
    LET dirname == Basename(f.dirpath) IN
    IF ~TnMatch(dirname)
    THEN Finish(f, h, ReturnNone)
    ELSE Finish(f, h + 2, ReturnTest(ParsedTestDefault(h + 2, dirname, self.driver_cls, NewDict(h), f.dirpath)))

\* ------------------------------------------------------------ direct construction

\* The values a caller constructs a ParsedTest from; matcher "omitted" leaves
\* the last parameter out.
NewArgs ==
    [test_name : {<<>>, <<"n">>}, driver_cls : {None, "PythonDriver"},
     val : {MapDoc({Timeout})}, test_dir : {<<"t">>},
     matcher : {"omitted", None, "m"}]

EnterNew(a, h) ==
    [Idle EXCEPT !.op = "new", !.pc = "start", !.test_name = a.test_name,
                 !.driver_cls = a.driver_cls, !.test_env = Ref(h + 1, a.val),
                 !.dirpath = a.test_dir, !.matcher = a.matcher]

\* ParsedTest(test_name, driver_cls, test_env, test_dir[, test_matcher])
Construct(f, h) ==
    IF f.matcher = "omitted"
    THEN Finish(f, h + 1, ReturnTest(ParsedTestDefault(h + 1, f.test_name, f.driver_cls, f.test_env, f.dirpath)))
    ELSE Finish(f, h + 1, ReturnTest(ParsedTest(h + 1, f.test_name, f.driver_cls, f.test_env, f.dirpath, f.matcher)))

\* ------------------------------------------------------------ the finders

\* YAMLTestFinder(): an instance without fields
NewYamlFinder == <<>>

\* AdaCoreLegacyTestFinder.__init__(driver_cls)
NewLegacyFinder(driver_cls) == [driver_cls |-> driver_cls]

\* ------------------------------------------------------------ state machine

Init ==
    /\ calls = [c \in Callers |-> Idle]
    /\ heap = 0
    /\ \E d \in DriverClasses : finders = [yaml |-> NewYamlFinder, legacy |-> NewLegacyFinder(d)]
    /\ lcall = Idle

Apply(c, st) ==
    /\ calls' = [calls EXCEPT ![c] = st.f]
    /\ heap' = st.h
    /\ UNCHANGED <<finders, lcall>>

At(c, op, pc) == calls[c].op = op /\ calls[c].pc = pc

\* A caller starts probe on the shared YAML finder.
CallYaml(c) ==
    /\ At(c, "idle", "idle")
    /\ heap + 2 <= MaxObjects
    /\ \E x \in Contexts, d \in Tree : Apply(c, Step(Enter("yaml", x.ts, x.env, d), heap))

\* A caller starts probe on the shared legacy finder.
CallLegacy(c) ==
    /\ At(c, "idle", "idle")
    /\ heap + 2 <= MaxObjects
    /\ \E x \in Contexts, d \in Tree : Apply(c, Step(Enter("legacy", x.ts, x.env, d), heap))

\* A caller builds a dict and is about to construct a ParsedTest from it.
CallNew(c) ==
    /\ At(c, "idle", "idle")
    /\ heap + 2 <= MaxObjects
    /\ \E a \in NewArgs : Apply(c, Step(EnterNew(a, heap), heap + 1))

DoYamlCheck(c) == At(c, "yaml", "start") /\ Apply(c, YamlCheck(calls[c], heap))

DoYamlName(c) == At(c, "yaml", "name") /\ Apply(c, YamlName(calls[c], heap))

DoYamlLoad(c) == At(c, "yaml", "load") /\ Apply(c, YamlLoad(calls[c], heap))

DoYamlNormalize(c) == At(c, "yaml", "normalize") /\ Apply(c, YamlNormalize(calls[c], heap))

DoYamlDriver(c) == At(c, "yaml", "driver") /\ Apply(c, YamlDriver(calls[c], heap))

DoYamlReturn(c) == At(c, "yaml", "return") /\ Apply(c, YamlReturn(calls[c], heap))

DoLegacyProbe(c) == At(c, "legacy", "start") /\ Apply(c, LegacyProbe(finders.legacy, calls[c], heap))

DoConstruct(c) == At(c, "new", "start") /\ Apply(c, Construct(calls[c], heap))

\* The caller takes the outcome of its finished call.
Collect(c) ==
    /\ calls[c].pc = "done"
    /\ Apply(c, Step(Idle, heap))

Next ==
    \E c \in Callers :
        \/ CallYaml(c)
        \/ CallLegacy(c)
        \/ CallNew(c)
        \/ DoYamlCheck(c)
        \/ DoYamlName(c)
        \/ DoYamlLoad(c)
        \/ DoYamlNormalize(c)
        \/ DoYamlDriver(c)
        \/ DoYamlReturn(c)
        \/ DoLegacyProbe(c)
        \/ DoConstruct(c)
        \/ Collect(c)

Spec == Init /\ [][Next]_vars

\* ------------------------------------------------------------ the legacy sweep

SweepChars == {"A", "1", "-"}

\* str.lower() on the characters of the sweep
Lower(ch) == IF ch = "A" THEN "a" ELSE ch

\* Every directory name over SweepChars up to MaxNameLen characters, as it is or lowered.
SweepNames ==
    LET raw == UNION {[1..n -> SweepChars] : n \in 0..MaxNameLen} IN
    raw \cup {[i \in 1..Len(s) |-> Lower(s[i])] : s \in raw}

\* The parent directories of the sweep: none, a plain one, one named like a test.
SweepParents == {<<>>, <<"t", "/">>, TN \o <<"/">>}

\* The finder's driver and the rest of a probe's arguments, which the legacy
\* finder does not read.
SweepRest ==
    {[driver_cls |-> "DefaultDriver", x |-> CHOOSE x \in Contexts : x.env = "linux",
      dirnames |-> <<>>, filenames |-> <<>>],
     [driver_cls |-> "PythonDriver", x |-> CHOOSE x \in Contexts : x.env = "windows",
      dirnames |-> <<"sub">>, filenames |-> <<"test.yaml">>]}

InitLegacy ==
    /\ calls = [c \in Callers |-> Idle]
    /\ heap = 0
    /\ \E n \in SweepNames, p \in SweepParents, r \in SweepRest :
          /\ finders = [yaml |-> NewYamlFinder, legacy |-> NewLegacyFinder(r.driver_cls)]
          /\ lcall = Enter("legacy", r.x.ts, r.x.env,
                           Dir(p \o n, r.dirnames, r.filenames, "absent", DocNone, DocNone))

\* The one probe of the sweep.
SweepProbe ==
    /\ lcall.pc = "start"
    /\ LET st == LegacyProbe(finders.legacy, lcall, heap) IN
          /\ lcall' = st.f
          /\ heap' = st.h
    /\ UNCHANGED <<calls, finders>>

NextLegacy == SweepProbe

SpecLegacy == InitLegacy /\ [][NextLegacy]_vars

\* ------------------------------------------------------------ properties

\* A call of the finder `op` that has returned or raised.
Finished(f, op) == f.op = op /\ f.pc = "done"

HasMarker(f) == \E i \in DOMAIN f.filenames : f.filenames[i] = "test.yaml"

\* What the load service answers for the test.yaml of the call's directory.
Loaded(f) == LoadWithConfig(PathJoin(f.dirpath, "test.yaml"), f.env)

LoadedOk(f) == HasMarker(f) /\ Loaded(f).status = "ok"

DriverItems(v) == {it \in v.items : it[1] = "driver"}

DriverValue(v) == (CHOOSE it \in DriverItems(v) : TRUE)[2]

Registered(ts, leaf) == \E e \in ts.test_driver_map : e[1] = leaf

Consulted(f) == \E i \in DOMAIN f.trace : f.trace[i][1] = "test_driver_map"

\* C1: YAMLTestFinder.probe returns None exactly when "test.yaml" is not in
\* filenames; with the file listed the outcome is a ParsedTest or a raised error.
C1_DeclineIffNoMarker ==
    \A c \in Callers :
        Finished(calls[c], "yaml") =>
            /\ (calls[c].outcome.kind = "none") <=> ~HasMarker(calls[c])
            /\ HasMarker(calls[c]) => calls[c].outcome.kind \in {"test", "raise"}

\* C1 witness: one call declined a directory that has other files, another
\* raised on a malformed candidate.
C1_Witness ==
    \E c, d \in Callers :
        /\ Finished(calls[c], "yaml") /\ calls[c].outcome.kind = "none" /\ calls[c].filenames # <<>>
        /\ Finished(calls[d], "yaml") /\ calls[d].outcome.kind = "raise"
        /\ calls[d].outcome.msg = "invalid format for test.yaml"

\* C2: every failure of the load, of whatever error type, ends the probe with
\* ProbingError("invalid syntax for test.yaml").
C2_AnyLoadFailureIsProbingError ==
    \A c \in Callers :
        (Finished(calls[c], "yaml") /\ HasMarker(calls[c]) /\ Loaded(calls[c]).status = "raise")
            => calls[c].outcome = ProbingError("invalid syntax for test.yaml")

\* C3: a non-null "driver" value that is no registered name (an unregistered
\* string, a non-string scalar, a sequence or a mapping) ends the probe with
\* ProbingError("cannot find driver"), never with the raw lookup failure.
C3_UnknownDriverIsProbingError ==
    \A c \in Callers :
        LET f == calls[c] IN
        (/\ Finished(f, "yaml") /\ LoadedOk(f) /\ IsMapping(Loaded(f).value)
         /\ DriverItems(Loaded(f).value) # {}
         /\ DriverValue(Loaded(f).value) # NULL
         /\ ~Registered(f.ts, DriverValue(Loaded(f).value)))
            => f.outcome = ProbingError("cannot find driver")

C5_NonMappingIsInvalidFormat ==
    \A c \in Callers :
        LET f == calls[c] IN
        (Finished(f, "yaml") /\ LoadedOk(f)) =>
            /\ Loaded(f).value.kind \notin {"null", "map"} =>
                   f.outcome = ProbingError("invalid format for test.yaml") /\ ~Consulted(f)
            /\ Loaded(f).value.kind = "null" =>
                   f.outcome.kind = "test" /\ f.outcome.test.test_env.val = MapDoc({})
            /\ f.outcome.kind = "test" =>
                   /\ f.outcome.test.test_env.val.kind = "map"
                   /\ Loaded(f).value.kind = "map" => f.outcome.test.test_env.val = Loaded(f).value

\* C5 witness: an empty list at the root was refused, and so was a false.
C5_Witness ==
    \E c, d \in Callers :
        /\ Finished(calls[c], "yaml") /\ LoadedOk(calls[c]) /\ Loaded(calls[c]).value = Doc("seq", "[]", {})
        /\ calls[c].outcome.msg = "invalid format for test.yaml"
        /\ Finished(calls[d], "yaml") /\ LoadedOk(calls[d]) /\ Loaded(calls[d]).value = Doc("bool", "False", {})
        /\ calls[d].outcome.msg = "invalid format for test.yaml"

\* C6: a successful YAML probe returns one ParsedTest whose test_name is
\* testsuite.test_name(dirpath), test_dir is dirpath, test_matcher is None and
\* test_env is the whole loaded mapping, "driver" included; an empty file gives
\* an empty mapping and no driver.
C6_SuccessShape ==
    \A c \in Callers :
        LET f == calls[c] t == calls[c].outcome.test IN
        (Finished(f, "yaml") /\ f.outcome.kind = "test") =>
            /\ LoadedOk(f)
            /\ t.test_name = TestsuiteTestName(f.ts, f.dirpath)
            /\ t.test_dir = f.dirpath
            /\ t.test_matcher = None
            /\ Loaded(f).value.kind = "map" => t.test_env.val = Loaded(f).value
            /\ Loaded(f).value.kind = "null" => t.test_env.val = MapDoc({}) /\ t.driver_cls = None

\* C6 witness: a returned test whose test_env holds the "driver" key and
\* another key, and a test returned for an empty file.
C6_Witness ==
    \E c, d \in Callers :
        /\ Finished(calls[c], "yaml") /\ calls[c].outcome.kind = "test"
        /\ calls[c].outcome.test.test_env.val.items = {<<"driver", Str("python")>>, Timeout}
        /\ Finished(calls[d], "yaml") /\ calls[d].outcome.kind = "test"
        /\ Loaded(calls[d]).value.kind = "null"

\* The last component of a path: what follows its last separator.
FinalComponent(p) ==
    LET seps == {i \in 1..Len(p) : p[i] = "/"} IN
    IF seps = {} THEN p
    ELSE SubSeq(p, (CHOOSE i \in seps : \A j \in seps : j <= i) + 1, Len(p))

AlNum == Upper \cup Digit

\* A name that starts with two of 0-9A-Z, two digits, a hyphen, three of A-Z0-9.
StartsWithTicket(b) ==
    /\ Len(b) >= 8
    /\ b[1] \in AlNum /\ b[2] \in AlNum
    /\ b[3] \in Digit /\ b[4] \in Digit
    /\ b[5] = "-"
    /\ b[6] \in AlNum /\ b[7] \in AlNum /\ b[8] \in AlNum

\* C7: AdaCoreLegacyTestFinder.probe returns a ParsedTest named after the last
\* component of dirpath, with the finder's driver, an empty test_env and
\* test_dir = dirpath, exactly when that component starts with a ticket number;
\* otherwise None; it never raises and reads nothing but dirpath.
C7_LegacyBinary ==
    lcall.pc = "done" =>
        LET b == FinalComponent(lcall.dirpath) t == lcall.outcome.test IN
        /\ lcall.trace = <<>>
        /\ IF StartsWithTicket(b)
           THEN /\ lcall.outcome.kind = "test"
                /\ t.test_name = b
                /\ t.driver_cls = finders.legacy.driver_cls
                /\ t.test_env.val = MapDoc({})
                /\ t.test_dir = lcall.dirpath
                /\ t.test_matcher = None
           ELSE lcall.outcome = ReturnNone

\* C7 witness: a name with characters after the ticket number gave a test.
C7_Witness ==
    /\ lcall.pc = "done" /\ lcall.outcome.kind = "test"
    /\ Len(lcall.outcome.test.test_name) > 8
    /\ lcall.filenames # <<>>

\* The next statement of a running call.
Advance(self, f, h) ==
    CASE f.op = "legacy" -> LegacyProbe(self, f, h)
      [] f.op = "yaml" /\ f.pc = "start" -> YamlCheck(f, h)
      [] f.op = "yaml" /\ f.pc = "name" -> YamlName(f, h)
      [] f.op = "yaml" /\ f.pc = "load" -> YamlLoad(f, h)
      [] f.op = "yaml" /\ f.pc = "normalize" -> YamlNormalize(f, h)
      [] f.op = "yaml" /\ f.pc = "driver" -> YamlDriver(f, h)
      [] OTHER -> YamlReturn(f, h)

RECURSIVE RunAlone(_, _, _)
RunAlone(self, f, h) ==
    IF f.pc = "done" THEN f.outcome
    ELSE LET st == Advance(self, f, h) IN RunAlone(self, st.f, st.h)

\* An outcome without the identities of the objects it holds.
Anonymous(o) == [o EXCEPT !.test.id = 0, !.test.test_env.id = 0]

\* The outcome of the same call made alone on a newly constructed finder.
AloneOutcome(f) ==
    RunAlone(NewLegacyFinder(finders.legacy.driver_cls),
             Enter(f.op, f.ts, f.env, Dir(f.dirpath, f.dirnames, f.filenames, "absent", DocNone, DocNone)),
             0)

Results == {c \in Callers : calls[c].pc = "done" /\ calls[c].outcome.kind = "test"}

C8_Outcomes ==
    /\ \A c \in Callers :
           (calls[c].pc = "done" /\ calls[c].op \in {"yaml", "legacy"}) =>
               Anonymous(calls[c].outcome) = Anonymous(AloneOutcome(calls[c]))
    /\ \A c, d \in Results :
           c # d =>
               /\ calls[c].outcome.test.id # calls[d].outcome.test.id
               /\ (calls[c].op = "legacy" /\ calls[d].op = "legacy") =>
                      calls[c].outcome.test.test_env.id # calls[d].outcome.test.test_env.id
    /\ \A c \in Results : calls[c].outcome.test.id # calls[c].outcome.test.test_env.id

\* C8: whatever the interleaving of probes on the shared finders, no call
\* changes a finder's fields, every outcome is that of the same call made alone
\* on a new finder, every returned ParsedTest is a new object and no two
\* legacy results share their test_env.
C8_Stateless == [](C8_Outcomes) /\ [][finders' = finders]_vars

\* C8 witness: two callers hold legacy results at once, obtained while the
\* other call was under way.
C8_Witness ==
    \E c, d \in Results :
        /\ c # d /\ calls[c].op = "legacy" /\ calls[d].op = "legacy"
        /\ calls[c].dirpath = calls[d].dirpath

\* C9: the YAML probe calls nothing when test.yaml is not listed; otherwise it
\* calls test_name(dirpath), then loads dirpath/test.yaml once, then consults
\* the registry at most once and only for a non-null "driver" of a loaded
\* mapping, never after a failed load or an invalid format. The legacy probe
\* calls nothing.
C9_ServiceOrder ==
    \A c \in Callers :
        LET f == calls[c] n == Len(calls[c].trace) IN
        /\ f.op = "legacy" => n = 0
        /\ f.op = "yaml" =>
            /\ ~HasMarker(f) => n = 0
            /\ n <= 3
            /\ n >= 1 => f.trace[1] = <<"test_name">> \o f.dirpath
            /\ n >= 2 => f.trace[2] = <<"load">> \o PathJoin(f.dirpath, "test.yaml")
            /\ n >= 3 =>
                /\ Loaded(f).status = "ok" /\ Loaded(f).value.kind = "map"
                /\ DriverItems(Loaded(f).value) # {}
                /\ DriverValue(Loaded(f).value) # NULL
                /\ f.trace[3] = <<"test_driver_map">> \o DriverValue(Loaded(f).value)
            /\ (f.pc = "done" /\ HasMarker(f)) => n >= 2
            /\ (f.pc = "done" /\ HasMarker(f) /\ Loaded(f).status = "raise") => n = 2
            /\ (f.pc = "done" /\ f.outcome.msg = "invalid format for test.yaml") => n = 2

\* C9 witness: one finished probe consulted the three services, another
\* returned a test without consulting the registry.
C9_Witness ==
    \E c, d \in Callers :
        /\ Finished(calls[c], "yaml") /\ Len(calls[c].trace) = 3
        /\ Finished(calls[d], "yaml") /\ calls[d].outcome.kind = "test" /\ Len(calls[d].trace) = 2

====
